---- MODULE Spec2Model ----
(***************************************************************************)
(* Reading-time analysis pipeline of analyze_exaggeration.py.              *)
(*                                                                         *)
(* The script is one sequential batch run.  Every statement group that     *)
(* builds or changes a table is one action; pc is the position of the      *)
(* script.  Tables (pandas DataFrames) are sequences of records, one       *)
(* record per row, one field per column.  A cell that pandas would hold    *)
(* as NaN is the empty set Null, a present value v is Some(v) = {v}, so    *)
(* that every comparison with a missing value is false as in pandas.       *)
(* Text that the script parses (labels, parameters) is a sequence of       *)
(* one-character strings.                                                  *)
(***************************************************************************)
EXTENDS Integers, Sequences, FiniteSets, TLC

VARIABLES
    pc,              \* position of the script
    raw,             \* results_prod.csv: the lines, each a sequence of fields
    stimuli,         \* stimuli.csv as loaded (line 14)
    results,         \* line 36
    rt_data,         \* lines 46-60
    merged_data,     \* line 72
    exp_data,        \* lines 77-86
    exp_data_clean,  \* lines 90-95, and line 167
    desc_stats,      \* lines 101-106
    overall,         \* lines 128-144
    by_format,       \* lines 148-160
    anova,           \* lines 167-173
    summary          \* lines 180-212

vars == <<pc, raw, stimuli, results, rt_data, merged_data, exp_data,
          exp_data_clean, desc_stats, overall, by_format, anova, summary>>

----------------------------------------------------------------------------
(* Bounds of the model *)

MaxLines == 3       \* lines of the raw log (specification Spec)
MaxLabelLen == 6    \* characters of a label (specification SpecKey)
MaxEvents == 3      \* key-press rows entering the join (specification SpecJoin)
MaxRows == 3        \* experimental rows entering the reconstruction (SpecRT)
MaxObs == 5         \* observations entering the statistics (SpecStats)

----------------------------------------------------------------------------
(* Missing values *)

Null == {}
Some(v) == {v}
Get(o) == CHOOSE v \in o : TRUE

\* a record with one more column
AddCol(r, name, v) ==
    [f \in (DOMAIN r) \cup {name} |-> IF f = name THEN v ELSE r[f]]

----------------------------------------------------------------------------
(* Loader: pd.read_csv(..., comment='#', names=column_names,               *)
(* on_bad_lines='skip').  A line is the sequence of its fields.  pandas    *)
(* drops a line that starts with the comment character, drops (as a "bad   *)
(* line") a line with more fields than there are column names, and keeps a *)
(* line with fewer fields, filling the missing trailing columns with NaN.  *)

NCols == 14

CommentMarker == "#"

IsCommentLine(line) == Len(line) > 0 /\ line[1] = CommentMarker

IsBadLineSkipShort(line) == Len(line) # NCols

IsBadLine(line) == Len(line) > NCols

Cell(line, k) == IF k <= Len(line) THEN Some(line[k]) ELSE Null

\* the columns of column_names the script goes on to read, by position
ParseRow(line, n) ==
    [src             |-> n,
     participant_hash |-> Cell(line, 2),
     item_order      |-> Cell(line, 4),
     Label           |-> Cell(line, 6),
     PennElementType |-> Cell(line, 8),
     Parameter       |-> Cell(line, 10),
     EventTime       |-> Cell(line, 12)]

RECURSIVE ReadFrom(_, _)
ReadFrom(file, n) ==
    IF n > Len(file) THEN <<>>
    ELSE IF IsCommentLine(file[n]) \/ IsBadLine(file[n])
         THEN ReadFrom(file, n + 1)
         ELSE <<ParseRow(file[n], n)>> \o ReadFrom(file, n + 1)

ReadCsv(file) == ReadFrom(file, 1)

----------------------------------------------------------------------------
(* Event filter and renaming, lines 46-57 *)

IsKey(r) == r.PennElementType = Some("Key")

Rename(r) ==
    [src             |-> r.src,
     participant     |-> r.participant_hash,
     item_order      |-> r.item_order,
     label           |-> r.Label,
     PennElementType |-> r.PennElementType,
     parameter       |-> r.Parameter,
     event_time      |-> r.EventTime]

KeyRows(table) ==
    LET kept == SelectSeq(table, IsKey)
    IN  [i \in 1..Len(kept) |-> Rename(kept[i])]

----------------------------------------------------------------------------
(* Key extractor, line 60: str.extract(r'([^_]+_[^_]+_[^_]+)')[0].         *)
(* re.search takes the leftmost position where the pattern matches; each   *)
(* [^_]+ is greedy, so a token runs to the next underscore or to the end.  *)

Underscore == "_"

\* last position of the run of non-underscore characters starting at i
\* (i - 1 when s[i] is an underscore or i is past the end)
RECURSIVE RunEnd(_, _)
RunEnd(s, i) ==
    IF i > Len(s) \/ s[i] = Underscore THEN i - 1 ELSE RunEnd(s, i + 1)

\* end of a match of the pattern starting at i, or 0 when there is none
MatchEnd(s, i) ==
    LET e1 == RunEnd(s, i)
        e2 == RunEnd(s, e1 + 2)
        e3 == RunEnd(s, e2 + 2)
    IN  IF /\ e1 >= i
           /\ e1 + 1 <= Len(s) /\ s[e1 + 1] = Underscore
           /\ e2 >= e1 + 2
           /\ e2 + 1 <= Len(s) /\ s[e2 + 1] = Underscore
           /\ e3 >= e2 + 2
        THEN e3 ELSE 0

\* leftmost position from i on where the pattern matches, or 0
RECURSIVE FirstMatch(_, _)
FirstMatch(s, i) ==
    IF i > Len(s) THEN 0
    ELSE IF MatchEnd(s, i) > 0 THEN i ELSE FirstMatch(s, i + 1)

ItemId(label) ==
    IF label = Null THEN Null
    ELSE IF FirstMatch(Get(label), 1) = 0 THEN Null
    ELSE Some(SubSeq(Get(label), FirstMatch(Get(label), 1),
                     MatchEnd(Get(label), FirstMatch(Get(label), 1))))

WithItemId(table) ==
    [i \in 1..Len(table) |-> AddCol(table[i], "item_id", ItemId(table[i].label))]

----------------------------------------------------------------------------
(* Joiner, lines 72 and 77: rt_data.merge(stimuli, on='item_id',           *)
(* how='left'), then merged_data[merged_data['type'] == 'exp'].            *)

NullStimulus ==
    [Exaggeration |-> Null, format |-> Null, type |-> Null,
     critical_region |-> Null]

StimulusCols(s) ==
    [Exaggeration |-> Some(s.Exaggeration), format |-> Some(s.format),
     type |-> Some(s.type), critical_region |-> Some(s.critical_region)]

Joined(r, cols) ==
    [f \in (DOMAIN r) \cup (DOMAIN cols) |->
        IF f \in DOMAIN cols THEN cols[f] ELSE r[f]]

RECURSIVE MergeLeft(_, _)
MergeLeft(left, right) ==
    IF left = <<>> THEN <<>>
    ELSE LET r  == Head(left)
             ms == SelectSeq(right, LAMBDA s : r.item_id = Some(s.item_id))
         IN  (IF ms = <<>>
              THEN <<Joined(r, NullStimulus)>>
              ELSE [i \in 1..Len(ms) |-> Joined(r, StimulusCols(ms[i]))])
             \o MergeLeft(Tail(left), right)

IsExpOrUnmatched(r) == r.type = Some("exp") \/ r.type = Null

IsExp(r) == r.type = Some("exp")

ExpRows(table) == SelectSeq(table, IsExp)

----------------------------------------------------------------------------
(* Region number, line 81: str.extract(r'^(\d+)')[0].astype(float) *)

Digits == {"0", "1", "2", "3", "4", "5", "6", "7", "8", "9"}

DigitVal(c) ==
    CASE c = "0" -> 0 [] c = "1" -> 1 [] c = "2" -> 2 [] c = "3" -> 3
      [] c = "4" -> 4 [] c = "5" -> 5 [] c = "6" -> 6 [] c = "7" -> 7
      [] c = "8" -> 8 [] c = "9" -> 9

\* last position of the run of digits starting at i
RECURSIVE DigitsEnd(_, _)
DigitsEnd(s, i) ==
    IF i > Len(s) \/ s[i] \notin Digits THEN i - 1 ELSE DigitsEnd(s, i + 1)

\* the number written by the digits s[1..n]
RECURSIVE ParseDigits(_, _)
ParseDigits(s, n) ==
    IF n = 0 THEN 0 ELSE 10 * ParseDigits(s, n - 1) + DigitVal(s[n])

Min(S) == CHOOSE x \in S : \A y \in S : x <= y

\* the first run of digits anywhere in the parameter (pattern without ^)
RegionAnywhere(parameter) ==
    IF parameter = Null THEN Null
    ELSE LET s  == Get(parameter)
             at == {i \in 1..Len(s) : s[i] \in Digits}
         IN  IF at = {} THEN Null
             ELSE LET i == Min(at)
                  IN  Some(ParseDigits(SubSeq(s, i, DigitsEnd(s, i)),
                                       DigitsEnd(s, i) - i + 1))

Region(parameter) ==
    IF parameter = Null THEN Null
    ELSE LET s == Get(parameter)
         IN  IF DigitsEnd(s, 1) = 0 THEN Null
             ELSE Some(ParseDigits(s, DigitsEnd(s, 1)))

WithRegion(table) ==
    [i \in 1..Len(table) |-> AddCol(table[i], "region", Region(table[i].parameter))]

----------------------------------------------------------------------------
(* Reading-time reconstructor, lines 85-86.                                *)
(* sort_values on several columns is a stable lexicographic sort that      *)
(* puts missing values last; groupby(...).diff() subtracts from each       *)
(* value the value of the previous row of the same group, and leaves out   *)
(* rows whose group key is missing.                                        *)

\* order of the participant strings the model uses
StrRank(p) == CASE p = "p1" -> 1 [] p = "p2" -> 2

\* ascending, missing values last
NumLess(a, b) == a # Null /\ (b = Null \/ Get(a) < Get(b))

StrLess(a, b) == a # Null /\ (b = Null \/ StrRank(Get(a)) < StrRank(Get(b)))

RowLess(a, b) ==
    \/ StrLess(a.participant, b.participant)
    \/ /\ a.participant = b.participant
       /\ \/ NumLess(a.item_order, b.item_order)
          \/ /\ a.item_order = b.item_order
             /\ NumLess(a.region, b.region)

\* ties broken the other way round
BeforeReversingTies(table, j, i) ==
    \/ RowLess(table[j], table[i])
    \/ ~RowLess(table[i], table[j]) /\ j > i

\* row j comes before row i in the result: it sorts lower, or they tie and
\* j was first (the sort is stable)
Before(table, j, i) ==
    \/ RowLess(table[j], table[i])
    \/ ~RowLess(table[i], table[j]) /\ j < i

PlaceOf(table, i) ==
    1 + Cardinality({j \in 1..Len(table) : Before(table, j, i)})

SortValues(table) ==
    [k \in 1..Len(table) |->
        table[CHOOSE i \in 1..Len(table) : PlaceOf(table, i) = k]]

SameGroup(a, b) ==
    /\ a.participant # Null /\ a.item_order # Null
    /\ a.participant = b.participant
    /\ a.item_order = b.item_order

\* rows before row i that belong to its group
Earlier(table, i) == {j \in 1..(i - 1) : SameGroup(table[i], table[j])}

Max(S) == CHOOSE x \in S : \A y \in S : x >= y

\* diff against the row just before, whatever its group
DiffAdjacent(table, i) ==
    IF i = 1 THEN Null
    ELSE LET a == table[i].event_time
             b == table[i - 1].event_time
         IN  IF a = Null \/ b = Null THEN Null ELSE Some(Get(a) - Get(b))

GroupDiff(table, i) ==
    IF Earlier(table, i) = {} THEN Null
    ELSE LET a == table[i].event_time
             b == table[Max(Earlier(table, i))].event_time
         IN  IF a = Null \/ b = Null THEN Null ELSE Some(Get(a) - Get(b))

WithRt(table) ==
    [i \in 1..Len(table) |-> AddCol(table[i], "rt", GroupDiff(table, i))]

----------------------------------------------------------------------------
(* Quality filter, lines 90-95 *)

RtMin == 100
RtMax == 5000

KeepExclusive(r) ==
    /\ r.rt # Null
    /\ \E v \in r.rt : v > RtMin
    /\ \E v \in r.rt : v < RtMax
    /\ \E a \in r.region : \E b \in r.critical_region : a = b

Keep(r) ==
    /\ r.rt # Null
    /\ \E v \in r.rt : v >= RtMin
    /\ \E v \in r.rt : v <= RtMax
    /\ \E a \in r.region : \E b \in r.critical_region : a = b

CleanRows(table) == SelectSeq(table, Keep)

----------------------------------------------------------------------------
(* Statistics engine, lines 101-173.  The numbers scipy and numpy return   *)
(* are not computed here; what is recorded is which analyses are run, on   *)
(* how many observations, and where a result is NaN for lack of data.      *)

IsLiteral(r) == r.Exaggeration = Some(0)
IsSarcastic(r) == r.Exaggeration = Some(1)

RECURSIVE SumRt(_)
SumRt(table) ==
    IF table = <<>> THEN 0 ELSE Get(Head(table).rt) + SumRt(Tail(table))

\* the cells groupby(['Exaggeration', 'format']) finds (missing keys dropped)
CellsOf(table) ==
    {<<Get(table[i].Exaggeration), Get(table[i].format)>> :
        i \in {j \in 1..Len(table) :
                 table[j].Exaggeration # Null /\ table[j].format # Null}}

InCell(table, c) ==
    SelectSeq(table, LAMBDA r : r.Exaggeration = Some(c[1]) /\ r.format = Some(c[2]))

\* lines 101-106: n, mean = total / n, and sd, se are NaN when n = 1
DescStats(table) ==
    {[Exaggeration |-> c[1], format |-> c[2],
      n |-> Len(InCell(table, c)),
      total |-> SumRt(InCell(table, c)),
      sd_is_nan |-> Len(InCell(table, c)) < 2] : c \in CellsOf(table)}

\* lines 128-144: no test of the sample sizes comes before ttest_ind
OverallTest(table) ==
    LET lit == SelectSeq(table, IsLiteral)
        sar == SelectSeq(table, IsSarcastic)
    IN  [computed  |-> TRUE,
         n_literal |-> Len(lit), n_sarcastic |-> Len(sar),
         p_value   |-> IF Len(lit) = 0 \/ Len(sar) = 0 THEN "nan" ELSE "computed",
         cohens_d  |-> IF Len(lit) < 2 \/ Len(sar) < 2 THEN "nan" ELSE "computed"]

\* lines 148-160
FormatTypes == {"direct", "indirect"}

FormatTest(table, format_type) ==
    LET format_data == SelectSeq(table, LAMBDA r : r.format = Some(format_type))
        lit == SelectSeq(format_data, IsLiteral)
        sar == SelectSeq(format_data, IsSarcastic)
    IN  [computed  |-> Len(lit) > 0 /\ Len(sar) > 0,
         n_literal |-> Len(lit), n_sarcastic |-> Len(sar)]

FormatTests(table) == [f \in FormatTypes |-> FormatTest(table, f)]

\* line 167: astype(str) + '_' + format; the text of a missing
\* Exaggeration is 'nan', and a missing format makes the label missing.
\* The label is held as the pair of its two parts.
ExaggerationStr(e) ==
    CASE e = Some(0) -> "0" [] e = Some(1) -> "1" [] OTHER -> "nan"

Condition(r) ==
    IF r.format = Null THEN Null
    ELSE Some(<<ExaggerationStr(r.Exaggeration), Get(r.format)>>)

WithCondition(table) ==
    [i \in 1..Len(table) |-> AddCol(table[i], "condition", Condition(table[i]))]

\* line 168: one group per label present, missing labels dropped
Groups(table) ==
    {Get(table[i].condition) :
        i \in {j \in 1..Len(table) : table[j].condition # Null}}

NGroups == 4

AnovaRunsAtLeast(n) == n >= NGroups

AnovaRuns(n) == n = NGroups

AnovaTest(table) ==
    [n_groups |-> Cardinality(Groups(table)),
     computed |-> AnovaRuns(Cardinality(Groups(table)))]

\* lines 180-212: the summary reads p_value, t_stat and cohens_d of the
\* overall comparison whatever the sample sizes were.  Every comparison
\* with NaN is false, so a NaN p falls to the last branch ("not
\* significant") and a NaN d to the last branch ("large").
Summary(o) ==
    [reported     |-> TRUE,
     significance |-> IF o.p_value = "nan" THEN "not significant" ELSE "by p_value",
     effect       |-> IF o.cohens_d = "nan" THEN "large" ELSE "by cohens_d"]

----------------------------------------------------------------------------
(* The script, statement group by statement group *)

Unset == <<>>

LoadResults ==
    /\ pc = "load"
    /\ results' = ReadCsv(raw)
    /\ pc' = "filter"
    /\ UNCHANGED <<raw, stimuli, rt_data, merged_data, exp_data, exp_data_clean,
                   desc_stats, overall, by_format, anova, summary>>

FilterKey ==
    /\ pc = "filter"
    /\ rt_data' = KeyRows(results)
    /\ pc' = "keys"
    /\ UNCHANGED <<raw, stimuli, results, merged_data, exp_data, exp_data_clean,
                   desc_stats, overall, by_format, anova, summary>>

ExtractKeys ==
    /\ pc = "keys"
    /\ rt_data' = WithItemId(rt_data)
    /\ pc' = "merge"
    /\ UNCHANGED <<raw, stimuli, results, merged_data, exp_data, exp_data_clean,
                   desc_stats, overall, by_format, anova, summary>>

Merge ==
    /\ pc = "merge"
    /\ merged_data' = MergeLeft(rt_data, stimuli)
    /\ pc' = "expfilter"
    /\ UNCHANGED <<raw, stimuli, results, rt_data, exp_data, exp_data_clean,
                   desc_stats, overall, by_format, anova, summary>>

FilterExp ==
    /\ pc = "expfilter"
    /\ exp_data' = ExpRows(merged_data)
    /\ pc' = "region"
    /\ UNCHANGED <<raw, stimuli, results, rt_data, merged_data, exp_data_clean,
                   desc_stats, overall, by_format, anova, summary>>

ExtractRegion ==
    /\ pc = "region"
    /\ exp_data' = WithRegion(exp_data)
    /\ pc' = "reconstruct"
    /\ UNCHANGED <<raw, stimuli, results, rt_data, merged_data, exp_data_clean,
                   desc_stats, overall, by_format, anova, summary>>

Reconstruct ==
    /\ pc = "reconstruct"
    /\ exp_data' = WithRt(SortValues(exp_data))
    /\ pc' = "quality"
    /\ UNCHANGED <<raw, stimuli, results, rt_data, merged_data, exp_data_clean,
                   desc_stats, overall, by_format, anova, summary>>

QualityFilter ==
    /\ pc = "quality"
    /\ exp_data_clean' = CleanRows(exp_data)
    /\ pc' = "desc"
    /\ UNCHANGED <<raw, stimuli, results, rt_data, merged_data, exp_data,
                   desc_stats, overall, by_format, anova, summary>>

Descriptive ==
    /\ pc = "desc"
    /\ desc_stats' = DescStats(exp_data_clean)
    /\ pc' = "overall"
    /\ UNCHANGED <<raw, stimuli, results, rt_data, merged_data, exp_data,
                   exp_data_clean, overall, by_format, anova, summary>>

Overall ==
    /\ pc = "overall"
    /\ overall' = OverallTest(exp_data_clean)
    /\ pc' = "byformat"
    /\ UNCHANGED <<raw, stimuli, results, rt_data, merged_data, exp_data,
                   exp_data_clean, desc_stats, by_format, anova, summary>>

ByFormat ==
    /\ pc = "byformat"
    /\ by_format' = FormatTests(exp_data_clean)
    /\ pc' = "anova"
    /\ UNCHANGED <<raw, stimuli, results, rt_data, merged_data, exp_data,
                   exp_data_clean, desc_stats, overall, anova, summary>>

Anova ==
    /\ pc = "anova"
    /\ exp_data_clean' = WithCondition(exp_data_clean)
    /\ anova' = AnovaTest(exp_data_clean')
    /\ pc' = "summary"
    /\ UNCHANGED <<raw, stimuli, results, rt_data, merged_data, exp_data,
                   desc_stats, overall, by_format, summary>>

Summarise ==
    /\ pc = "summary"
    /\ summary' = Summary(overall)
    /\ pc' = "done"
    /\ UNCHANGED <<raw, stimuli, results, rt_data, merged_data, exp_data,
                   exp_data_clean, desc_stats, overall, by_format, anova>>

----------------------------------------------------------------------------
(* Inputs.  stimuli.csv: item_id is a unique key and no cell of the        *)
(* columns read here is empty (spec section 3 and 6).  The third format    *)
(* value stands for any format other than the two the script names.        *)

Id(a, b, c) == <<a, "_", b, "_", c>>

Stimulus(id, typ, exaggeration, fmt, crit) ==
    [item_id |-> id, type |-> typ, Exaggeration |-> exaggeration,
     format |-> fmt, critical_region |-> crit]

Design ==
    <<Stimulus(Id("a", "a", "a"), "exp", 0, "direct", 2),
      Stimulus(Id("a", "a", "b"), "exp", 1, "direct", 2),
      Stimulus(Id("a", "b", "a"), "exp", 0, "indirect", 2),
      Stimulus(Id("a", "b", "b"), "exp", 1, "indirect", 1),
      Stimulus(Id("b", "a", "a"), "exp", 0, "other", 2),
      Stimulus(Id("b", "a", "b"), "exp", 1, "other", 2),
      Stimulus(Id("b", "b", "a"), "filler", 0, "direct", 1)>>

\* the label the experiment gives the trials of an item
LabelOf(id) == id \o <<"_", "b">>

\* parameters: region 1, region 2, and a key press that names no region
P1 == <<"1", "_", "s">>
P2 == <<"2", "_", "s">>
PS == <<"s", "2">>

ParamOf(region) == IF region = 1 THEN P1 ELSE P2

\* a well-formed line of the log: the 14 fields of column_names in order
Line(p, io, label, typ, param, t) ==
    <<"t", p, "c", io, "e", label, "g", typ, "n", param, "v", t, "s", "m">>

\* the same line cut after the Parameter field (an incomplete write)
ShortLine(p, io, label, typ, param) ==
    SubSeq(Line(p, io, label, typ, param, 0), 1, 11)

\* The width of the first record of the file decides how pandas lays out
\* the columns; the model covers files whose first record has at most the
\* 14 named fields.
FirstRecordFits(file) ==
    \A i \in 1..Len(file) :
        (~IsCommentLine(file[i]) /\ \A j \in 1..(i - 1) : IsCommentLine(file[j]))
            => Len(file[i]) <= NCols

StageNo(stage) ==
    CASE stage = "load" -> 1 [] stage = "filter" -> 2 [] stage = "keys" -> 3
      [] stage = "merge" -> 4 [] stage = "expfilter" -> 5
      [] stage = "region" -> 6 [] stage = "reconstruct" -> 7
      [] stage = "quality" -> 8 [] stage = "desc" -> 9
      [] stage = "overall" -> 10 [] stage = "byformat" -> 11
      [] stage = "anova" -> 12 [] stage = "summary" -> 13
      [] stage = "done" -> 14

\* the state of the script when it reaches stage on these two files
AtStage(stage, file, stim) ==
    \E n \in {StageNo(stage)} :
    \E res \in {IF n >= 2 THEN ReadCsv(file) ELSE Unset} :
    \E rt0 \in {IF n >= 3 THEN KeyRows(res) ELSE Unset} :
    \E rt1 \in {IF n >= 4 THEN WithItemId(rt0) ELSE Unset} :
    \E mrg \in {IF n >= 5 THEN MergeLeft(rt1, stim) ELSE Unset} :
    \E ex0 \in {IF n >= 6 THEN ExpRows(mrg) ELSE Unset} :
    \E ex1 \in {IF n >= 7 THEN WithRegion(ex0) ELSE Unset} :
    \E srt \in {IF n >= 8 THEN SortValues(ex1) ELSE Unset} :
    \E ex2 \in {IF n >= 8 THEN WithRt(srt) ELSE Unset} :
        /\ pc = stage
        /\ raw = file
        /\ stimuli = stim
        /\ results = res
        /\ rt_data = IF n >= 4 THEN rt1 ELSE rt0
        /\ merged_data = mrg
        /\ exp_data = IF n >= 8 THEN ex2 ELSE IF n = 7 THEN ex1 ELSE ex0
        /\ exp_data_clean = IF n >= 9 THEN CleanRows(ex2) ELSE Unset
        /\ desc_stats = Unset
        /\ overall = Unset
        /\ by_format = Unset
        /\ anova = Unset
        /\ summary = Unset

----------------------------------------------------------------------------
(* Spec: the whole run, on a log of at most MaxLines lines *)

LineSamples ==
    {Line("p1", 1, LabelOf(Id("a", "a", "a")), "Key", P1, 0),
     Line("p1", 1, LabelOf(Id("a", "a", "a")), "Key", P2, 100),
     Line("p1", 1, LabelOf(Id("a", "a", "a")), "Key", PS, 200),
     Line("p2", 1, LabelOf(Id("a", "b", "b")), "Key", P1, 5100),
     Line("p1", 1, LabelOf(Id("b", "b", "a")), "Key", P2, 300),
     Line("p1", 1, LabelOf(Id("b", "b", "b")), "Key", P2, 300),
     Line("p1", 1, LabelOf(Id("a", "a", "a")), "PennController", P2, 50),
     <<CommentMarker, "note">>,
     Line("p1", 1, LabelOf(Id("a", "a", "a")), "Key", P2, 100) \o <<"extra">>,
     ShortLine("p1", 1, LabelOf(Id("a", "a", "a")), "Key", P2)}

Init ==
    \E k \in 0..MaxLines : \E file \in [1..k -> LineSamples] :
        /\ FirstRecordFits(file)
        /\ AtStage("load", file, Design)

Next ==
    \/ LoadResults
    \/ FilterKey
    \/ ExtractKeys
    \/ Merge
    \/ FilterExp
    \/ ExtractRegion
    \/ Reconstruct
    \/ QualityFilter
    \/ Descriptive
    \/ Overall
    \/ ByFormat
    \/ Anova
    \/ Summarise

Spec == Init /\ [][Next]_vars

----------------------------------------------------------------------------
(* SpecKey: the key extractor on every label of at most MaxLabelLen        *)
(* characters over a letter, another letter and the underscore             *)

LabelChars == {"a", "b", "_"}

InitKey ==
    \E k \in 0..MaxLabelLen : \E label \in [1..k -> LabelChars] :
        AtStage("keys", <<Line("p1", 1, label, "Key", P1, 0)>>, Design)

NextKey == ExtractKeys

SpecKey == InitKey /\ [][NextKey]_vars

----------------------------------------------------------------------------
(* SpecJoin: from the key extractor to the end of the run, on at most      *)
(* MaxEvents key presses of one trial whose labels name an experimental    *)
(* item, a filler, an item the design lacks, or no item at all             *)

JoinLabels ==
    {LabelOf(Id("a", "a", "a")), LabelOf(Id("a", "a", "b")),
     LabelOf(Id("b", "b", "a")), LabelOf(Id("b", "b", "b")),
     <<"a", "_", "b">>}

StimuliSamples ==
    {Design, Tail(Design), <<Design[7]>>, <<>>}

JoinFile(labels) ==
    [i \in 1..Len(labels) |->
        Line("p1", 1, labels[i], "Key", IF i = 1 THEN P1 ELSE P2, 100 * (i - 1))]

InitJoin ==
    \E k \in 0..MaxEvents : \E labels \in [1..k -> JoinLabels] :
    \E stim \in StimuliSamples :
        AtStage("keys", JoinFile(labels), stim)

NextJoin ==
    \/ ExtractKeys
    \/ Merge
    \/ FilterExp
    \/ ExtractRegion
    \/ Reconstruct
    \/ QualityFilter
    \/ Descriptive
    \/ Overall
    \/ ByFormat
    \/ Anova
    \/ Summarise

SpecJoin == InitJoin /\ [][NextJoin]_vars

----------------------------------------------------------------------------
(* SpecRT: region extraction, reconstruction and quality filter on at most *)
(* MaxRows key presses of experimental items, in any order of the log:     *)
(* two trials, three parameters, three timestamps                          *)

FirstTrial == <<"p1", 2, LabelOf(Id("a", "a", "a"))>>

SecondTrial == <<"p2", 1, LabelOf(Id("a", "b", "b"))>>

Params == {P1, P2, PS}

Times == {0, 100, 5100}

\* every press of the first trial; of the second, a region-bearing and a
\* region-less parameter at two timestamps
Presses ==
    ({FirstTrial} \X Params \X Times)
        \cup ({SecondTrial} \X {P1, PS} \X {0, 100})

PressLine(press) ==
    Line(press[1][1], press[1][2], press[1][3], "Key", press[2], press[3])

InitRT ==
    \E k \in 0..MaxRows : \E presses \in [1..k -> Presses] :
        AtStage("region", [i \in 1..Len(presses) |-> PressLine(presses[i])], Design)

NextRT ==
    \/ ExtractRegion
    \/ Reconstruct
    \/ QualityFilter

SpecRT == InitRT /\ [][NextRT]_vars

----------------------------------------------------------------------------
(* SpecStats: the statistics on at most MaxObs observations, each the      *)
(* critical-region reading time of one trial of one item of the design;    *)
(* the trials come in the order of the design, any number per item         *)

ExpItems == {d \in 1..Len(Design) : Design[d].type = "exp"}

\* trial k of item d: the key press before the critical region and the
\* key press of the critical region
TrialLines(k, d) ==
    <<Line("p1", k, LabelOf(Design[d].item_id), "Key", P1, 0),
      Line("p1", k, LabelOf(Design[d].item_id), "Key",
           ParamOf(Design[d].critical_region), 400 + 100 * k)>>

RECURSIVE TrialsFile(_, _)
TrialsFile(items, k) ==
    IF k > Len(items) THEN <<>>
    ELSE TrialLines(k, items[k]) \o TrialsFile(items, k + 1)

InitStats ==
    \E k \in 0..MaxObs : \E items \in [1..k -> ExpItems] :
        /\ \A i \in 1..(Len(items) - 1) : items[i] <= items[i + 1]
        /\ AtStage("desc", TrialsFile(items, 1), Design)

NextStats ==
    \/ Descriptive
    \/ Overall
    \/ ByFormat
    \/ Anova
    \/ Summarise

SpecStats == InitStats /\ [][NextStats]_vars

----------------------------------------------------------------------------
(* Properties *)

Reached(stage) == StageNo(pc) >= StageNo(stage)

Rows(table) == 1..Len(table)

\* the rows of results read from line n of the log
RowsOfLine(n) == {i \in Rows(results) : results[i].src = n}

FieldOrNull(line, k) == IF Len(line) >= k THEN {line[k]} ELSE {}

StatsStages == {"desc", "overall", "byformat", "anova", "summary"}

\* C10: no step changes the loaded stimulus table or the loaded event
\* table, and no step of the statistics engine changes the quality-filtered
\* table (same rows, same columns).
C10_ReadOnly ==
    [][/\ stimuli' = stimuli
       /\ (pc # "load" => results' = results)
       /\ (pc \in StatsStages => exp_data_clean' = exp_data_clean)]_vars

NLiteral(fmts) ==
    Cardinality({i \in Rows(exp_data_clean) :
        exp_data_clean[i].Exaggeration = {0} /\ exp_data_clean[i].format \in fmts})

NSarcastic(fmts) ==
    Cardinality({i \in Rows(exp_data_clean) :
        exp_data_clean[i].Exaggeration = {1} /\ exp_data_clean[i].format \in fmts})

AnyFormat == {exp_data_clean[i].format : i \in Rows(exp_data_clean)}

\* C6: each of the three comparisons (overall, direct, indirect) is computed
\* if and only if both sides have at least one observation, and the summary
\* reports the overall comparison only if it was run on two non-empty sides.
C6_SkippedWhenEmpty ==
    /\ Reached("byformat") =>
          (overall.computed <=> (NLiteral(AnyFormat) > 0 /\ NSarcastic(AnyFormat) > 0))
    /\ Reached("anova") =>
          \A f \in {"direct", "indirect"} :
              by_format[f].computed <=> (NLiteral({{f}}) > 0 /\ NSarcastic({{f}}) > 0)
    /\ Reached("done") =>
          (summary.reported => (NLiteral(AnyFormat) > 0 /\ NSarcastic(AnyFormat) > 0))

\* the combined labels present in the quality-filtered data
LabelsPresent ==
    {<<exp_data_clean[i].Exaggeration, exp_data_clean[i].format>> :
        i \in Rows(exp_data_clean)}

\* C7: the F-test is run if and only if the quality-filtered data holds
\* exactly four distinct combined labels; either way the run goes on to the
\* summary and ends.
C7_AnovaIffFourLabels ==
    /\ Reached("summary") =>
          /\ anova.n_groups = Cardinality(LabelsPresent)
          /\ anova.computed <=> (Cardinality(LabelsPresent) = 4)
    /\ Reached("done") => summary.reported

\* the run has ended with three of the four labels and the ANOVA skipped
C7_Witness ==
    /\ pc = "done"
    /\ Cardinality(LabelsPresent) = 3
    /\ ~anova.computed

\* the key press names an item the design marks experimental
NamesExpItem(r) ==
    \E d \in Rows(stimuli) :
        stimuli[d].type = "exp" /\ r.item_id = {stimuli[d].item_id}

OnlyExperimental(table) ==
    /\ \A i \in Rows(table) :
          /\ table[i].type = {"exp"}
          /\ table[i].Exaggeration # {}
          /\ table[i].format # {}
    /\ \A k \in Rows(rt_data) :
          ~NamesExpItem(rt_data[k]) =>
              \A i \in Rows(table) : table[i].src # rt_data[k].src

\* C3: every row kept after the join and the type filter has type "exp" and
\* a non-null Exaggeration and format; a key press whose item_id names no
\* stimulus, or a filler, is in neither the table the reconstruction works
\* on nor the table the statistics work on, and every observation the
\* descriptive table counts is one of that table.
C3_OnlyExperimentalRows ==
    /\ Reached("region") => OnlyExperimental(exp_data)
    /\ Reached("desc") => OnlyExperimental(exp_data_clean)
    /\ Reached("overall") =>
          \A c \in desc_stats :
              c.n = Cardinality({i \in Rows(exp_data_clean) :
                        /\ exp_data_clean[i].Exaggeration = {c.Exaggeration}
                        /\ exp_data_clean[i].format = {c.format}})

\* the type filter has run on a join that held an experimental row, an
\* unmatched row and a filler row
C3_Witness ==
    /\ pc = "region"
    /\ exp_data # <<>>
    /\ \E i \in Rows(merged_data) : merged_data[i].type = {}
    /\ \E i \in Rows(merged_data) : merged_data[i].type = {"filler"}

UnderscoresOf(s) == {i \in 1..Len(s) : s[i] = "_"}

\* the first three underscore-delimited tokens of s, joined by underscores
FirstThreeTokens(s) ==
    IF Cardinality(UnderscoresOf(s)) = 2 THEN s
    ELSE LET third == CHOOSE u \in UnderscoresOf(s) :
                          Cardinality({v \in UnderscoresOf(s) : v < u}) = 2
         IN  SubSeq(s, 1, third - 1)

\* C4: whenever the extractor yields an identifier for a label, the
\* identifier is the label's first three underscore-delimited tokens joined
\* by underscores, never a substring that starts later in the label.
C4_FirstThreeTokens ==
    pc = "merge" =>
        \A i \in Rows(rt_data) :
            rt_data[i].item_id # {} =>
                rt_data[i].item_id = {FirstThreeTokens(Get(rt_data[i].label))}

SameTrial(a, b) ==
    a.participant = b.participant /\ a.item_order = b.item_order

Minus(a, b) == IF a = {} \/ b = {} THEN {} ELSE {Get(a) - Get(b)}

\* C2: after the reconstruction the table holds exactly one row per row
\* that passed the type filter, with that row's columns unchanged; the rows
\* of a trial (participant, item_order) are together and in ascending
\* region order, missing regions last; the first row of a trial has no
\* reading time and every other row has its event_time minus the
\* event_time of the row just before it.
C2_Reconstruction ==
    Reached("quality") =>
        /\ \A k \in Rows(merged_data) :
              Cardinality({i \in Rows(exp_data) :
                              exp_data[i].src = merged_data[k].src})
                  = IF merged_data[k].type = {"exp"} THEN 1 ELSE 0
        /\ \A i \in Rows(exp_data) : \E k \in Rows(merged_data) :
              \A f \in DOMAIN merged_data[k] : exp_data[i][f] = merged_data[k][f]
        /\ \A i \in Rows(exp_data) : \A j \in Rows(exp_data) :
              (i < j /\ SameTrial(exp_data[i], exp_data[j])) =>
                  /\ \A k \in i..j : SameTrial(exp_data[i], exp_data[k])
                  /\ exp_data[j].region = {} \/
                        \E a \in exp_data[i].region : \E b \in exp_data[j].region : a <= b
        /\ \A i \in Rows(exp_data) :
              exp_data[i].rt =
                  IF i > 1 /\ SameTrial(exp_data[i], exp_data[i - 1])
                  THEN Minus(exp_data[i].event_time, exp_data[i - 1].event_time)
                  ELSE {}

\* a reconstruction that had to reorder the log, over two trials
C2_Witness ==
    /\ pc = "quality"
    /\ \E i \in Rows(exp_data) : \E j \in Rows(exp_data) :
          i < j /\ exp_data[i].src > exp_data[j].src
    /\ \E i \in Rows(exp_data) : exp_data[i].rt # {}
    /\ \E i \in Rows(exp_data) : \E j \in Rows(exp_data) :
          ~SameTrial(exp_data[i], exp_data[j])

PassesFilter(r) ==
    /\ r.rt # {}
    /\ \A v \in r.rt : 100 <= v /\ v <= 5000
    /\ r.region # {}
    /\ r.region = r.critical_region

\* C1: a row of the reconstructed table is in the filtered table if and
\* only if its reading time is non-null, lies in [100, 5000] and its region
\* equals its critical region; the filtered rows are rows of the
\* reconstructed table, unaltered, once each and in the same order.
C1_QualityFilter ==
    pc = "desc" =>
        /\ \A i \in Rows(exp_data) :
              (\E k \in Rows(exp_data_clean) : exp_data_clean[k] = exp_data[i])
                  <=> PassesFilter(exp_data[i])
        /\ \A k \in Rows(exp_data_clean) :
              \E i \in Rows(exp_data) : exp_data_clean[k] = exp_data[i]
        /\ \A k \in Rows(exp_data_clean) : \A m \in Rows(exp_data_clean) :
              k < m => \E i \in Rows(exp_data) : \E j \in Rows(exp_data) :
                  /\ i < j
                  /\ exp_data_clean[k] = exp_data[i]
                  /\ exp_data_clean[m] = exp_data[j]

\* the filter kept a reading time of exactly 100 ms and one of exactly
\* 5000 ms and dropped the first row of the trial
C1_Witness ==
    /\ pc = "desc"
    /\ \E k \in Rows(exp_data_clean) : exp_data_clean[k].rt = {100}
    /\ \E k \in Rows(exp_data_clean) : exp_data_clean[k].rt = {5000}
    /\ Len(exp_data_clean) < Len(exp_data)

StartsWithDigit(parameter) ==
    parameter # {} /\ Len(Get(parameter)) > 0 /\ Get(parameter)[1] \in Digits

\* row i is the record just before another row of its trial
IsPreviousRecord(i) ==
    i < Len(exp_data) /\ SameTrial(exp_data[i], exp_data[i + 1])

\* C5 (as stated): a parameter "1_s" gives region 1, "2_s" region 2; an
\* event whose parameter does not start with a digit has a null region,
\* receives no reading time, is not the previous record of another event
\* and is not in the filtered table.
C5_NullRegionExcluded ==
    Reached("quality") =>
        \A i \in Rows(exp_data) :
            /\ exp_data[i].parameter = {P1} => exp_data[i].region = {1}
            /\ exp_data[i].parameter = {P2} => exp_data[i].region = {2}
            /\ ~StartsWithDigit(exp_data[i].parameter) =>
                  /\ exp_data[i].region = {}
                  /\ exp_data[i].rt = {}
                  /\ ~IsPreviousRecord(i)
                  /\ pc = "desc" =>
                        \A k \in Rows(exp_data_clean) :
                            exp_data_clean[k].src # exp_data[i].src

\* C5 (amended): a parameter "1_s" gives region 1, "2_s" region 2; an
\* event whose parameter does not start with a digit has a null region,
\* comes after every event of its trial that has a region, so that it is
\* never the previous record of an event that has a region, and is not in
\* the filtered table.
C5_NullRegionLast ==
    Reached("quality") =>
        \A i \in Rows(exp_data) :
            /\ exp_data[i].parameter = {P1} => exp_data[i].region = {1}
            /\ exp_data[i].parameter = {P2} => exp_data[i].region = {2}
            /\ ~StartsWithDigit(exp_data[i].parameter) =>
                  /\ exp_data[i].region = {}
                  /\ \A j \in Rows(exp_data) :
                        (SameTrial(exp_data[i], exp_data[j]) /\ exp_data[j].region # {})
                            => j < i
                  /\ pc = "desc" =>
                        \A k \in Rows(exp_data_clean) :
                            exp_data_clean[k].src # exp_data[i].src

\* an event with no region that was given a reading time in the filter's
\* range and was dropped by the filter
C5_Witness ==
    /\ pc = "desc"
    /\ \E i \in Rows(exp_data) :
          /\ exp_data[i].region = {}
          /\ exp_data[i].rt = {100}
          /\ \A k \in Rows(exp_data_clean) : exp_data_clean[k].src # exp_data[i].src

\* the timestamps of the trial of row i never decrease along the log
MonotoneTimes(i) ==
    \A a \in Rows(exp_data) : \A b \in Rows(exp_data) :
        (/\ SameTrial(exp_data[i], exp_data[a])
         /\ SameTrial(exp_data[i], exp_data[b])
         /\ exp_data[a].src < exp_data[b].src)
            => \A t \in exp_data[a].event_time : \A u \in exp_data[b].event_time : t <= u

\* the regions of the trial of row i never decrease along the log, events
\* without a region coming last
MonotoneRegions(i) ==
    \A a \in Rows(exp_data) : \A b \in Rows(exp_data) :
        (/\ SameTrial(exp_data[i], exp_data[a])
         /\ SameTrial(exp_data[i], exp_data[b])
         /\ exp_data[a].src < exp_data[b].src)
            => \/ exp_data[b].region = {}
               \/ \E r \in exp_data[a].region : \E q \in exp_data[b].region : r <= q

\* C8 (as stated): when the timestamps of a trial never decrease along the
\* log, every non-null reading time of the trial is non-negative.
C8_NonNegative ==
    Reached("quality") =>
        \A i \in Rows(exp_data) :
            MonotoneTimes(i) => \A v \in exp_data[i].rt : v >= 0

\* C8 (amended): when the timestamps of a trial never decrease along the
\* log and its region numbers never decrease along the log either (events
\* without a region last), every non-null reading time of the trial is
\* non-negative.
C8_NonNegativeInLogOrder ==
    Reached("quality") =>
        \A i \in Rows(exp_data) :
            (MonotoneTimes(i) /\ MonotoneRegions(i)) =>
                \A v \in exp_data[i].rt : v >= 0

\* a trial logged in region order with increasing timestamps, two events
\* sharing a region, and a positive reading time
C8_Witness ==
    /\ pc = "quality"
    /\ \E i \in Rows(exp_data) :
          /\ MonotoneTimes(i) /\ MonotoneRegions(i)
          /\ i > 1 /\ SameTrial(exp_data[i], exp_data[i - 1])
          /\ exp_data[i].region = exp_data[i - 1].region
          /\ \E v \in exp_data[i].rt : v > 0

====
